---- MODULE Spec2Model ----
(***************************************************************************)
(* W06E01_DigitDisplay (src/main.c): three FreeRTOS tasks of equal         *)
(* priority.  readerTask creates two queues of 5 one-byte items, reads     *)
(* bytes from USART0 and sends each one (as an int minus '0', and as the   *)
(* raw char) to driverTask and senderTask.  driverTask shows a digit on    *)
(* PORTC, senderTask writes one of two messages to USART0.                 *)
(*                                                                         *)
(* One action is one step of one task between two points where the         *)
(* time-slicing scheduler may switch tasks.                                *)
(***************************************************************************)
EXTENDS Integers, Sequences, FiniteSets, TLC

(* ------------------------------ bounds --------------------------------- *)

\* Number of bytes the serial line delivers in a run.
MaxInputs == 2

\* Number of times a task's xQueueReceive on a NULL handle may hand back a
\* byte that was never sent.
MaxWild == 1

(* ------------------------- program constants --------------------------- *)

\* xQueueCreate(5,1): uxQueueLength and uxItemSize.
QueueLength == 5
ItemSize == 1

\* '0' .. '9'
Char0 == 48
Char9 == 57

NULL == 0

\* The bytes the serial line may deliver: '/', '3', 'A'.  All are below
\* 128, where a signed and an unsigned char hold the same value.
InputBytes == {47, 51, 65}

\* The keystrokes "123456" of the burst scenario.
Burst == <<49, 50, 51, 52, 53, 54>>

\* Content of memory that is read before the program wrote it.
UninitBytes == {0, 165}

\* A byte that a read through a NULL queue handle may hand out.
WildBytes == {3}

\* uint8_t number[]: 0, 1, 2, ... 9, E
number == <<63, 6, 91, 79, 102, 109, 125, 7, 127, 111, 121>>

\* "Valid digit was entered."
MsgValid == <<86, 97, 108, 105, 100, 32, 100, 105, 103, 105, 116, 32, 119, 97,
              115, 32, 101, 110, 116, 101, 114, 101, 100, 46>>

\* "Error! Not a valid digit."
MsgError == <<69, 114, 114, 111, 114, 33, 32, 78, 111, 116, 32, 97, 32, 118,
              97, 108, 105, 100, 32, 100, 105, 103, 105, 116, 46>>

(* --------------------------- pure helpers ------------------------------ *)

RECURSIVE BitOr(_, _)
\* a | b on non-negative integers
BitOr(a, b) ==
    IF a = 0 THEN b
    ELSE IF b = 0 THEN a
    ELSE (IF a % 2 = 1 \/ b % 2 = 1 THEN 1 ELSE 0) + 2 * BitOr(a \div 2, b \div 2)

RECURSIVE BitAndNot(_, _)
\* a & ~b on non-negative integers
BitAndNot(a, b) ==
    IF a = 0 THEN 0
    ELSE (IF a % 2 = 1 /\ b % 2 = 0 THEN 1 ELSE 0) + 2 * BitAndNot(a \div 2, b \div 2)

\* A clear that leaves the register as it is.
OutClrNothing(out, v) == out

\* A clear of the low four lines only.
OutClrLowNibble(out, v) == BitAndNot(out, 15)

\* PORTx.OUTSET = v and PORTx.OUTCLR = v on the 8-bit output register
OutSet(out, v) == BitOr(out, v) % 256
OutClr(out, v) == BitAndNot(out, v % 256)

\* int userInputToInt = userInput - '0'
ToInt(c) == c - Char0

\* The bytes of a 16-bit int in memory, low byte first (AVR is little-endian).
IntBytes(x) == <<(x % 65536) % 256, (x % 65536) \div 256>>

\* The int whose two bytes in memory are b (two's complement, 16 bits).
BytesInt(b) ==
    LET u == b[1] + 256 * b[2]
    IN  IF u >= 32768 THEN u - 65536 ELSE u

\* prvCopyDataToQueue: the first uxItemSize bytes at pvItemToQueue.
ItemOf(bytes) == SubSeq(bytes, 1, ItemSize)

\* prvCopyDataFromQueue: uxItemSize bytes are written at pvBuffer, the bytes
\* of the buffer behind them keep what they held.
CopyOut(item, buffer) == item \o SubSeq(buffer, ItemSize + 1, Len(buffer))

\* A send that never finds the queue full.
xQueueSendUnbounded(q, item) == Append(q, item)

\* A send that makes room by dropping the oldest item.
xQueueSendOverwrite(q, item) ==
    IF Len(q) < 5 THEN Append(q, item) ELSE Append(Tail(q), item)

\* xQueueSend(q, item, 0): the content of the queue afterwards.
xQueueSend(q, item) == IF Len(q) < QueueLength THEN Append(q, item) ELSE q

\* xQueueReceive(q, buf, 0): pdTRUE or not, the item handed out, the rest.
QueueHasItem(q) == Len(q) > 0
QueueBack(q) == q[Len(q)]
QueueFront(q) == Head(q)
QueueRest(q) == Tail(q)

\* if((recInt==0)||(recInt==1)|| ... ||(recInt==9))
IsDigitInt(x) == x \in 0..9

\* A test for a digit that forgets the lower end.
IsDigitCharNoLower(c) == c <= 57

\* if((recChar=='0')||(recChar=='1')|| ... ||(recChar=='9'))
IsDigitChar(c) == c \in Char0..Char9

\* A fallback that shows the last digit instead of E.
SelectIndexLastDigit(x) == IF x \in 0..9 THEN x ELSE 9

\* The index of number[] that driverTask reads for recInt.
SelectIndex(x) == IF IsDigitInt(x) THEN x ELSE 10

\* A loop that also sends the terminating '\0'.
LoopGoesOnInclusive(k, s) == k <= Len(s)

\* for(size_t i = 0; i < strlen(str); i++): the loop goes on
LoopGoesOn(k, s) == k < Len(s)

\* str[i]: the characters of the literal, then its terminating '\0'
CharAt(s, k) == IF k < Len(s) THEN s[k + 1] ELSE 0

\* The string senderTask passes to USART0_sendString for recChar.
SelectMessage(c) == IF IsDigitChar(c) THEN MsgValid ELSE MsgError

(* ------------------------------- state --------------------------------- *)

VARIABLES
    pcR, pcD, pcS,          \* where each task is
    halted,                 \* configASSERT trapped: interrupts off, for(;;)
    intQueueForDriver,      \* the global handles (NULL until created)
    charQueueForError,
    intQ, charQ,            \* the items stored in the two queues
    keyboard,               \* what is typed: any keys ("free"), one key
                            \* ("key") or Burst ("burst")
    nRead,                  \* bytes received so far
    userInput,              \* readerTask's locals
    userInputToInt,
    recInt,                 \* driverTask's int, as its two bytes in memory
    idx,                    \* the index of number[] driverTask is about to read
    PORTC_OUT,              \* the segment lines
    recChar,                \* senderTask's char
    str, i,                 \* USART0_sendString's argument and loop index
    txOut,                  \* every byte written to USART0.TXDATAL
    nullUse,                \* the queue calls made on a NULL handle
    accInt, accChar,        \* the items each queue accepted, in order
    gotInt, gotChar,        \* the items each xQueueReceive handed out, in
                            \* order, each with where it came from
    keysRead,               \* the bytes USART0_readChar returned, in order
    shown,                  \* the patterns written by PORTC.OUTSET, in order
    started                 \* the strings passed to USART0_sendString, in order

vars == <<pcR, pcD, pcS, halted, intQueueForDriver, charQueueForError, intQ,
          charQ, keyboard, nRead, userInput, userInputToInt, recInt, idx,
          PORTC_OUT, recChar, str, i, txOut, nullUse, accInt, accChar, gotInt,
          gotChar, keysRead, shown, started>>

readerVars == <<pcR, nRead, userInput, userInputToInt, keysRead>>
driverVars == <<pcD, recInt, idx, PORTC_OUT, gotInt, shown>>
senderVars == <<pcS, recChar, str, i, txOut, gotChar, started>>
globalVars == <<intQueueForDriver, charQueueForError, keyboard>>

\* The items of a receive history that came out of the queue.
FromQueue(got) ==
    LET f == SelectSeq(got, LAMBDA e : e[2] = "queue")
    IN  [k \in 1..Len(f) |-> f[k][1]]

\* The number of items of a receive history that nobody sent.
Wild(got) == Len(SelectSeq(got, LAMBDA e : e[2] = "wild"))

\* The item a task is handling came out of the queue.
LastFromQueue(got) == got # <<>> /\ got[Len(got)][2] = "queue"

\* main: the three tasks are created and the scheduler is started; the
\* globals are zero.  recInt is declared without a value: its bytes hold what
\* the stack held (the low byte is written by every xQueueReceive that
\* returns pdTRUE before recInt is read, the high byte never is).  userInput,
\* userInputToInt, recChar, idx, str and i are written before they are read.
Start ==
    /\ pcR = "create_int"
    /\ pcD = "receive"
    /\ pcS = "receive"
    /\ halted = FALSE
    /\ intQueueForDriver = NULL
    /\ charQueueForError = NULL
    /\ intQ = <<>>
    /\ charQ = <<>>
    /\ nRead = 0
    /\ userInput = 0
    /\ userInputToInt = 0
    /\ recInt \in {<<0, h>> : h \in UninitBytes}
    /\ idx = 10
    /\ PORTC_OUT = 0
    /\ recChar = 0
    /\ str = <<>>
    /\ i = 0
    /\ txOut = <<>>
    /\ nullUse = {}
    /\ accInt = <<>>
    /\ accChar = <<>>
    /\ gotInt = <<>>
    /\ gotChar = <<>>
    /\ keysRead = <<>>
    /\ shown = <<>>
    /\ started = <<>>

\* Any keys are typed.
Init == Start /\ keyboard = "free"

\* The keys 1 2 3 4 5 6 are typed.
InitBurst == Start /\ keyboard = "burst"

\* One key is typed.
InitKey == Start /\ keyboard = "key"

\* The bytes that may arrive next on the serial line.
Arriving ==
    IF keyboard = "burst"
    THEN (IF nRead < Len(Burst) THEN {Burst[nRead + 1]} ELSE {})
    ELSE IF keyboard = "key"
    THEN (IF nRead < 1 THEN InputBytes ELSE {})
    ELSE (IF nRead < MaxInputs THEN InputBytes ELSE {})

(* ----------------------------- readerTask ------------------------------ *)

\* intQueueForDriver = xQueueCreate(5,1);
ReaderCreateInt ==
    /\ ~halted
    /\ pcR = "create_int"
    /\ intQueueForDriver' = 1
    /\ pcR' = "create_char"
    /\ UNCHANGED <<charQueueForError, keyboard, nRead, userInput,
                   userInputToInt, keysRead, halted, intQ, charQ, nullUse, accInt,
                   accChar, driverVars, senderVars>>

\* charQueueForError = xQueueCreate(5,1);
ReaderCreateChar ==
    /\ ~halted
    /\ pcR = "create_char"
    /\ charQueueForError' = 2
    /\ pcR' = "read"
    /\ UNCHANGED <<intQueueForDriver, keyboard, nRead, userInput,
                   userInputToInt, keysRead, halted, intQ, charQ, nullUse, accInt,
                   accChar, driverVars, senderVars>>

\* char userInput = USART0_readChar(); int userInputToInt = userInput-'0';
\* The task spins in USART0_readChar until the receiver holds a byte.
ReaderRead ==
    /\ ~halted
    /\ pcR = "read"
    /\ \E c \in Arriving :
          /\ userInput' = c
          /\ userInputToInt' = ToInt(c)
          /\ keysRead' = Append(keysRead, c)
    /\ nRead' = nRead + 1
    /\ pcR' = "send_int"
    /\ UNCHANGED <<globalVars, halted, intQ, charQ, nullUse, accInt, accChar,
                   driverVars, senderVars>>

\* xQueueSend(intQueueForDriver, (void *)&userInputToInt, 0);
ReaderSendInt ==
    /\ ~halted
    /\ pcR = "send_int"
    /\ IF intQueueForDriver = NULL
       THEN /\ nullUse' = nullUse \cup {"send_int"}
            /\ halted' \in BOOLEAN
            /\ UNCHANGED <<intQ, accInt>>
       ELSE /\ intQ' = xQueueSend(intQ, ItemOf(IntBytes(userInputToInt)))
            /\ accInt' = IF intQ' # intQ
                         THEN Append(accInt, ItemOf(IntBytes(userInputToInt)))
                         ELSE accInt
            /\ UNCHANGED <<nullUse, halted>>
    /\ pcR' = "send_char"
    /\ UNCHANGED <<globalVars, nRead, userInput, userInputToInt, keysRead,
                   charQ, accChar, driverVars, senderVars>>

\* A send of the raw byte that also echoes it on the serial line.
ReaderSendCharEcho ==
    /\ ~halted
    /\ pcR = "send_char"
    /\ charQueueForError # NULL
    /\ charQ' = IF Len(charQ) < 5 THEN Append(charQ, <<userInput>>) ELSE charQ
    /\ accChar' = IF charQ' # charQ THEN Append(accChar, <<userInput>>)
                  ELSE accChar
    /\ txOut' = Append(txOut, userInput)
    /\ pcR' = "read"
    /\ UNCHANGED <<globalVars, nRead, userInput, userInputToInt, keysRead,
                   intQ, accInt, driverVars, halted, nullUse, pcS, recChar,
                   str, i, gotChar, started>>

\* xQueueSend(charQueueForError, (void *)&userInput, 0);
ReaderSendChar ==
    /\ ~halted
    /\ pcR = "send_char"
    /\ IF charQueueForError = NULL
       THEN /\ nullUse' = nullUse \cup {"send_char"}
            /\ halted' \in BOOLEAN
            /\ UNCHANGED <<charQ, accChar>>
       ELSE /\ charQ' = xQueueSend(charQ, ItemOf(<<userInput>>))
            /\ accChar' = IF charQ' # charQ
                          THEN Append(accChar, ItemOf(<<userInput>>))
                          ELSE accChar
            /\ UNCHANGED <<nullUse, halted>>
    /\ pcR' = "read"
    /\ UNCHANGED <<globalVars, nRead, userInput, userInputToInt, keysRead,
                   intQ, accInt, driverVars, senderVars>>

(* ----------------------------- driverTask ------------------------------ *)

\* What xQueueReceive(NULL, buf, 0) may do: trap in configASSERT, read a
\* count of 0 and return errQUEUE_EMPTY, or read a count above 0 and copy a
\* byte that nobody sent.
NullOutcomes(got) ==
    {<<"assert", 0>>, <<"empty", 0>>}
        \cup (IF Wild(got) < MaxWild
              THEN {<<"item", b>> : b \in WildBytes}
              ELSE {})

\* if(xQueueReceive(intQueueForDriver, (void *)&recInt, 0)==pdTRUE)
DriverReceive ==
    /\ ~halted
    /\ pcD = "receive"
    /\ IF intQueueForDriver = NULL
       THEN /\ nullUse' = nullUse \cup {"receive_int"}
            /\ \E o \in NullOutcomes(gotInt) :
                  /\ halted' = (o[1] = "assert")
                  /\ IF o[1] = "item"
                     THEN /\ recInt' = CopyOut(<<o[2]>>, recInt)
                          /\ gotInt' = Append(gotInt, <<(<<o[2]>>), "wild">>)
                          /\ pcD' = "clear"
                     ELSE UNCHANGED <<recInt, gotInt, pcD>>
            /\ UNCHANGED intQ
       ELSE /\ IF QueueHasItem(intQ)
               THEN /\ recInt' = CopyOut(QueueFront(intQ), recInt)
                    /\ intQ' = QueueRest(intQ)
                    /\ gotInt' = Append(gotInt, <<QueueFront(intQ), "queue">>)
                    /\ pcD' = "clear"
               ELSE UNCHANGED <<recInt, intQ, gotInt, pcD>>
            /\ UNCHANGED <<nullUse, halted>>
    /\ UNCHANGED <<globalVars, readerVars, charQ, accInt, accChar, idx,
                   PORTC_OUT, shown, senderVars>>

\* The test on recInt and, in either branch, PORTC.OUTCLR = 0xFF;
DriverClear ==
    /\ ~halted
    /\ pcD = "clear"
    /\ idx' = SelectIndex(BytesInt(recInt))
    /\ PORTC_OUT' = OutClr(PORTC_OUT, 255)
    /\ pcD' = "set"
    /\ UNCHANGED <<globalVars, readerVars, halted, intQ, charQ, nullUse,
                   accInt, accChar, recInt, gotInt, shown, senderVars>>

\* PORTC.OUTSET = number[recInt];  or  PORTC.OUTSET = number[10];
DriverSet ==
    /\ ~halted
    /\ pcD = "set"
    /\ PORTC_OUT' = OutSet(PORTC_OUT, number[idx + 1])
    /\ shown' = Append(shown, number[idx + 1])
    /\ pcD' = "receive"
    /\ UNCHANGED <<globalVars, readerVars, halted, intQ, charQ, nullUse,
                   accInt, accChar, recInt, idx, gotInt, senderVars>>

(* ----------------------------- senderTask ------------------------------ *)

\* if(xQueueReceive(charQueueForError, (void *)&recChar, 0)==pdTRUE)
SenderReceive ==
    /\ ~halted
    /\ pcS = "receive"
    /\ IF charQueueForError = NULL
       THEN /\ nullUse' = nullUse \cup {"receive_char"}
            /\ \E o \in NullOutcomes(gotChar) :
                  /\ halted' = (o[1] = "assert")
                  /\ IF o[1] = "item"
                     THEN /\ recChar' = CopyOut(<<o[2]>>, <<recChar>>)[1]
                          /\ gotChar' = Append(gotChar, <<(<<o[2]>>), "wild">>)
                          /\ pcS' = "test"
                     ELSE UNCHANGED <<recChar, gotChar, pcS>>
            /\ UNCHANGED charQ
       ELSE /\ IF QueueHasItem(charQ)
               THEN /\ recChar' = CopyOut(QueueFront(charQ), <<recChar>>)[1]
                    /\ charQ' = QueueRest(charQ)
                    /\ gotChar' = Append(gotChar, <<QueueFront(charQ), "queue">>)
                    /\ pcS' = "test"
               ELSE UNCHANGED <<recChar, charQ, gotChar, pcS>>
            /\ UNCHANGED <<nullUse, halted>>
    /\ UNCHANGED <<globalVars, readerVars, intQ, accInt, accChar, driverVars,
                   str, i, txOut, started>>

\* The test on recChar and the call of USART0_sendString: size_t i = 0
SenderTest ==
    /\ ~halted
    /\ pcS = "test"
    /\ str' = SelectMessage(recChar)
    /\ started' = Append(started, SelectMessage(recChar))
    /\ i' = 0
    /\ pcS' = "send"
    /\ UNCHANGED <<globalVars, readerVars, halted, intQ, charQ, nullUse,
                   accInt, accChar, driverVars, recChar, txOut, gotChar>>

\* for(size_t i = 0; i < strlen(str); i++) USART0_sendChar(str[i]);
\* USART0_sendChar spins until the data register is empty, then writes it.
SenderSendChar ==
    /\ ~halted
    /\ pcS = "send"
    /\ IF LoopGoesOn(i, str)
       THEN /\ txOut' = Append(txOut, CharAt(str, i))
            /\ i' = i + 1
            /\ pcS' = "send"
       ELSE /\ pcS' = "receive"
            /\ UNCHANGED <<txOut, i>>
    /\ UNCHANGED <<globalVars, readerVars, halted, intQ, charQ, nullUse,
                   accInt, accChar, driverVars, recChar, str, gotChar,
                   started>>

(* --------------------------- specifications ---------------------------- *)

readerTask ==
    \/ ReaderCreateInt
    \/ ReaderCreateChar
    \/ ReaderRead
    \/ ReaderSendInt
    \/ ReaderSendChar

\* A driverTask that waits until senderTask is idle with nothing to send.
driverTaskAfterSender ==
    /\ pcS = "receive"
    /\ charQ = <<>>
    /\ (DriverReceive \/ DriverClear \/ DriverSet)

driverTask ==
    \/ DriverReceive
    \/ DriverClear
    \/ DriverSet

senderTask ==
    \/ SenderReceive
    \/ SenderTest
    \/ SenderSendChar

Next == readerTask \/ driverTask \/ senderTask

\* Any interleaving of the three tasks, any keys.
Spec == Init /\ [][Next]_vars

\* Any interleaving of the three tasks, the keys 1 2 3 4 5 6.
SpecBurst == InitBurst /\ [][Next]_vars

\* One key, and the scheduler gives each of the three tasks of equal
\* priority its turn.
FairSpec ==
    /\ InitKey
    /\ [][Next]_vars
    /\ WF_vars(readerTask)
    /\ WF_vars(driverTask)
    /\ WF_vars(senderTask)

(* ------------------------------ properties ----------------------------- *)

\* The key whose derived value, cut to one byte, is the item.
KeyOf(item) == (item[1] + 48) % 256

IsDigitKey(c) == c >= 48 /\ c <= 57

\* The item driverTask took from the queue last, and its key.
DriverKey == KeyOf(gotInt[Len(gotInt)][1])

\* driverTask has passed the test on the item it took from the queue.
DriverDecided == LastFromQueue(gotInt) /\ pcD \in {"set", "receive"}

\* C1: when driverTask has taken the value of a digit key b from the queue,
\* it selects index b - '0' of number[] and, once it has set the display,
\* PORTC shows number[b - '0'].
DigitShowsOwnPattern ==
    (DriverDecided /\ IsDigitKey(DriverKey))
        => /\ idx = DriverKey - 48
           /\ pcD = "receive" => PORTC_OUT = number[DriverKey - 48 + 1]

\* C2: the index used to read number[] is always in 0..10, and when
\* driverTask has taken the value of a key that is no digit from the queue
\* it selects index 10 and, once it has set the display, PORTC shows
\* 0b01111001.
NonDigitShowsFallback ==
    /\ idx \in 0..10
    /\ (DriverDecided /\ ~IsDigitKey(DriverKey))
          => /\ idx = 10
             /\ pcD = "receive" => PORTC_OUT = 121

\* C2 witness: the key '/' (value -1, byte 255) was taken from the queue
\* with the rest of recInt zero, and the display shows E.
NonDigitShown ==
    /\ DriverDecided
    /\ pcD = "receive"
    /\ DriverKey = 47
    /\ recInt = <<255, 0>>
    /\ PORTC_OUT = 121

\* The message that belongs to a received byte.
MessageFor(item) == IF IsDigitKey(item[1]) THEN MsgValid ELSE MsgError

RECURSIVE MessagesFor(_, _)
\* The messages of the first n received bytes, one after the other.
MessagesFor(got, n) ==
    IF n = 0 THEN <<>> ELSE MessagesFor(got, n - 1) \o MessageFor(got[n][1])

\* C3: the bytes transmitted are, for each byte senderTask received, in
\* order, exactly one message: "Valid digit was entered." if the byte is in
\* '0'..'9' and "Error! Not a valid digit." if not (the message of the byte
\* being handled is sent as far as the loop index says).
OneMessagePerByte ==
    LET n == Len(gotChar)
    IN  txOut = CASE pcS = "receive" -> MessagesFor(gotChar, n)
                  [] pcS = "test" -> MessagesFor(gotChar, n - 1)
                  [] pcS = "send" ->
                        MessagesFor(gotChar, n - 1)
                            \o SubSeq(MessageFor(gotChar[n][1]), 1, i)

\* C3 witness: a digit and a key that is no digit came out of the queue and
\* both messages are out.
BothMessagesSent ==
    /\ pcS = "receive"
    /\ FromQueue(gotChar) = <<(<<51>>), (<<47>>)>>
    /\ txOut = MsgValid \o MsgError

\* C4: no queue call is made on a handle that is still NULL.
QueuesCreatedBeforeUse == nullUse = {}

\* C5: each queue holds at most 5 items.
QueuesHoldAtMostFive == Len(intQ) <= 5 /\ Len(charQ) <= 5

\* C5 witness: the sixth key has been offered to both queues while both
\* were full.
SixthOfferedToFullQueues ==
    /\ nRead = 6
    /\ pcR = "read"
    /\ Len(accInt) = 5
    /\ Len(accChar) = 5
    /\ Len(intQ) = 5
    /\ Len(charQ) = 5

\* readerTask's send on a full queue leaves the queue as it is and goes on.
SendOnFullQueue ==
    /\ (pcR = "send_int" /\ pcR' # pcR /\ Len(intQ) = 5)
          => (intQ' = intQ /\ pcR' = "send_char")
    /\ (pcR = "send_char" /\ pcR' # pcR /\ Len(charQ) = 5)
          => (charQ' = charQ /\ pcR' = "read")

\* After the keys 1 2 3 4 5 6 with nothing taken from the queue.
BurstUndrained(got) ==
    keyboard = "burst" /\ nRead = 6 /\ pcR = "read" /\ FromQueue(got) = <<>>

\* C6: a send on a queue that holds 5 items leaves its content unchanged
\* and readerTask goes on to the next send and the next read; after the keys
\* 1 2 3 4 5 6 with nothing taken out, the int queue holds 1,2,3,4,5 (and
\* the char queue '1'..'5').
FullQueueDropsNewest ==
    /\ [][SendOnFullQueue]_vars
    /\ [](BurstUndrained(gotInt)
             => intQ = <<(<<1>>), (<<2>>), (<<3>>), (<<4>>), (<<5>>)>>)
    /\ [](BurstUndrained(gotChar)
             => charQ = <<(<<49>>), (<<50>>), (<<51>>), (<<52>>), (<<53>>)>>)

\* C6 witness: the six keys are read, nothing was taken out of either queue.
BurstKept ==
    /\ BurstUndrained(gotInt)
    /\ BurstUndrained(gotChar)
    /\ intQ = <<(<<1>>), (<<2>>), (<<3>>), (<<4>>), (<<5>>)>>

\* C7: the items taken from a queue, followed by the items still in it, are
\* the items it accepted, in the order it accepted them.
QueuesAreFifo ==
    /\ FromQueue(gotInt) \o intQ = accInt
    /\ FromQueue(gotChar) \o charQ = accChar

\* C7 witness: the sixth key was dropped by both queues, so 5 items were
\* sent with none taken in between, and all 5 have been taken since.
FiveTakenInOrder ==
    /\ nRead = 6
    /\ Len(accInt) = 5
    /\ Len(accChar) = 5
    /\ intQ = <<>>
    /\ charQ = <<>>
    /\ FromQueue(gotInt) = <<(<<1>>), (<<2>>), (<<3>>), (<<4>>), (<<5>>)>>
    /\ FromQueue(gotChar) = <<(<<49>>), (<<50>>), (<<51>>), (<<52>>), (<<53>>)>>

\* s is the start of t.
IsPrefix(s, t) == Len(s) <= Len(t) /\ SubSeq(t, 1, Len(s)) = s

RECURSIVE Framed(_)
\* s is whole messages followed by at most one unfinished message.
Framed(s) ==
    IF IsPrefix(MsgValid, s)
    THEN Framed(SubSeq(s, Len(MsgValid) + 1, Len(s)))
    ELSE IF IsPrefix(MsgError, s)
    THEN Framed(SubSeq(s, Len(MsgError) + 1, Len(s)))
    ELSE IsPrefix(s, MsgValid) \/ IsPrefix(s, MsgError)

\* C8: the bytes written to the transmitter are whole copies of the two
\* messages followed by at most one unfinished copy, and nothing else.
OutputIsFramed == Framed(txOut)

\* C8 witness: a whole message is out and the next is half out, while the
\* other two tasks are in the middle of their work.
SecondMessageHalfOut ==
    /\ pcS = "send"
    /\ i = 12
    /\ Len(txOut) > 30
    /\ pcD = "set"
    /\ pcR = "send_char"

\* C9: with every task getting its turn, an accepted item is taken from
\* its queue, the key '3' brings up 0b01001111 and the key 'A' 0b01111001,
\* and the message of every accepted byte is sent completely.
AcceptedIsServed ==
    /\ \A n \in 1..MaxInputs :
          (Len(accInt) >= n) ~> (Len(FromQueue(gotInt)) >= n)
    /\ (\E k \in 1..Len(accInt) : accInt[k] = <<3>>) ~> (PORTC_OUT = 79)
    /\ (\E k \in 1..Len(accInt) : accInt[k] = <<17>>) ~> (PORTC_OUT = 121)
    /\ \A n \in 1..MaxInputs :
          (Len(accChar) >= n)
              ~> (Len(FromQueue(gotChar)) >= n /\ pcS = "receive")

\* C10: no task is ever stuck or ended and some step can always be taken.
NoTerminalState == ~halted /\ ENABLED Next

\* A step of readerTask's loop.
ReaderLoopStep == pcR \in {"read", "send_int", "send_char"} /\ pcR' # pcR

\* A step in which no task moves on: a poll that took nothing.
FailedPoll ==
    /\ pcR' = pcR /\ pcD' = pcD /\ pcS' = pcS
    /\ i' = i /\ gotInt' = gotInt /\ gotChar' = gotChar

ValueSurvivesQueue ==
    LastFromQueue(gotInt) => BytesInt(recInt) = DriverKey - 48

\* The handles and hardware registers the next step of each task reads or
\* writes (the items stored in the queues are left out).
ReaderTouches ==
    CASE pcR = "create_int" -> {<<"intQueueForDriver", "write">>}
      [] pcR = "create_char" -> {<<"charQueueForError", "write">>}
      [] pcR = "read" -> {<<"USART0.STATUS", "read">>,
                          <<"USART0.RXDATAL", "read">>}
      [] pcR = "send_int" -> {<<"intQueueForDriver", "read">>}
      [] pcR = "send_char" -> {<<"charQueueForError", "read">>}

DriverTouches ==
    CASE pcD = "receive" -> {<<"intQueueForDriver", "read">>}
      [] pcD = "clear" -> {<<"PORTC.OUT", "write">>}
      [] pcD = "set" -> {<<"PORTC.OUT", "write">>}

SenderTouches ==
    CASE pcS = "receive" -> {<<"charQueueForError", "read">>}
      [] pcS = "test" -> {}
      [] pcS = "send" -> {<<"USART0.STATUS", "read">>,
                          <<"USART0.TXDATAL", "write">>}

\* What a set of accesses touches, and what it writes.
Touched(a) == {x[1] : x \in a}
Written(a) == {x[1] : x \in {y \in a : y[2] = "write"}}

\* The handles and registers that two sets of accesses both touch, one of
\* them writing.
Conflicts(a, b) ==
    (Written(a) \cap Touched(b)) \cup (Touched(a) \cap Written(b))

\* The registers of the serial transport and of the display.
TransportRegisters == {"USART0.STATUS", "USART0.RXDATAL", "USART0.TXDATAL"}
DisplayRegisters == {"PORTC.OUT"}

\* The tasks whose next step touches a register of the set.
Users(regs) ==
    {t \in {"reader", "driver", "sender"} :
        regs \cap Touched(CASE t = "reader" -> ReaderTouches
                            [] t = "driver" -> DriverTouches
                            [] t = "sender" -> SenderTouches) # {}}

\* C13: apart from the items in the queues, the next steps of two tasks never
\* touch the same handle or hardware register with one of them writing it;
\* the display registers are touched by driverTask alone and the transport
\* registers by one task alone.
ExclusiveOwnership ==
    ~halted =>
        /\ Conflicts(ReaderTouches, DriverTouches) = {}
        /\ Conflicts(ReaderTouches, SenderTouches) = {}
        /\ Conflicts(DriverTouches, SenderTouches) = {}
        /\ Users(DisplayRegisters) \subseteq {"driver"}
        /\ Cardinality(Users(TransportRegisters)) <= 1

\* The bit patterns of number[].
Patterns == {number[k] : k \in 1..Len(number)}

\* C14: the display shows nothing or one pattern of number[]: it is dark
\* between the clear and the set, and otherwise shows exactly the pattern
\* written last, never that pattern together with bits of an earlier one.
DisplayShowsOnePattern ==
    /\ PORTC_OUT \in {0} \cup Patterns
    /\ pcD = "set" => PORTC_OUT = 0
    /\ (pcD # "set" /\ shown # <<>>) => PORTC_OUT = shown[Len(shown)]

\* C14 witness: driverTask stands between the clear and the set of its
\* second item, the display was lit before, the other tasks are at work.
BetweenClearAndSet ==
    /\ pcD = "set"
    /\ Len(shown) = 1
    /\ PORTC_OUT = 0
    /\ pcS = "send"
    /\ pcR = "send_char"

\* C15: when driverTask has handled an item the display shows the pattern
\* it selected, whatever was shown before; after the same item twice in a
\* row it shows what it showed after the first.
ClearThenSetIsIdempotent ==
    LET n == Len(gotInt)
    IN  (pcD = "receive" /\ n > 0)
            => /\ PORTC_OUT = number[idx + 1]
               /\ (n > 1 /\ gotInt[n][1] = gotInt[n - 1][1])
                     => /\ Len(shown) = n
                        /\ shown[n] = shown[n - 1]
                        /\ PORTC_OUT = shown[n - 1]

\* C15 witness: the key '3' was handled twice in a row and the display
\* shows 0b01001111.
SameDigitTwice ==
    /\ pcD = "receive"
    /\ FromQueue(gotInt) = <<(<<3>>), (<<3>>)>>
    /\ shown = <<79, 79>>
    /\ PORTC_OUT = 79

\* A task has work to do: it is past its receive, or its queue holds an item.
DriverHasWork ==
    ~halted /\ (pcD # "receive" \/ (intQueueForDriver # NULL /\ intQ # <<>>))
SenderHasWork ==
    ~halted /\ (pcS # "receive" \/ (charQueueForError # NULL /\ charQ # <<>>))

\* C16: driverTask and senderTask race: whenever one of them has work to do
\* it can take its next step whatever the other is doing, and a step of one
\* changes nothing the other owns; so with one key at the head of both
\* queues either of them may finish first.
ConsumersRaceFreely ==
    /\ [](DriverHasWork => ENABLED <<driverTask>>_vars)
    /\ [](SenderHasWork => ENABLED <<senderTask>>_vars)
    /\ [][ /\ pcD' # pcD => UNCHANGED <<senderVars, charQ, accChar>>
           /\ (pcS' # pcS \/ i' # i) => UNCHANGED <<driverVars, intQ, accInt>>
         ]_vars

\* C16 witness: one key is at the head of both queues, nothing has been
\* taken yet and both consumers are about to poll.
KeyPendingForBoth ==
    /\ Len(keysRead) = 1
    /\ intQ = <<(<<3>>)>> /\ charQ = <<(<<51>>)>>
    /\ gotInt = <<>> /\ gotChar = <<>>
    /\ pcD = "receive" /\ pcS = "receive"
    /\ ~halted

\* The pattern and the message that belong to a key.
PatternFor(c) == IF IsDigitKey(c) THEN number[c - 48 + 1] ELSE number[11]
PatternsFor(keys) == [k \in 1..Len(keys) |-> PatternFor(keys[k])]
StringsFor(keys) == [k \in 1..Len(keys) |-> MessageFor(<<keys[k]>>)]

RECURSIVE IsSubseq(_, _)
\* s is t with some of its elements left out.
IsSubseq(s, t) ==
    IF s = <<>> THEN TRUE
    ELSE IF t = <<>> THEN FALSE
    ELSE IF Head(s) = Head(t) THEN IsSubseq(Tail(s), Tail(t))
    ELSE IsSubseq(s, Tail(t))

\* C17: the patterns shown so far are, in order, patterns of keys read so
\* far, each key used at most once, and the messages started so far are, in
\* order, messages of keys read so far, each key used at most once.
NothingInvented ==
    /\ IsSubseq(shown, PatternsFor(keysRead))
    /\ IsSubseq(started, StringsFor(keysRead))
    /\ Len(shown) <= Len(keysRead)
    /\ Len(started) <= Len(keysRead)

\* The number of keys readerTask has offered to each queue.
OfferedInt == IF pcR = "send_int" THEN nRead - 1 ELSE nRead
OfferedChar == IF pcR \in {"send_int", "send_char"} THEN nRead - 1 ELSE nRead

\* No queue was full when readerTask offered it a value.
NothingDropped == Len(accInt) = OfferedInt /\ Len(accChar) = OfferedChar

\* C18: as long as nothing was dropped, the k-th display update and the
\* k-th message belong to the k-th key read, and each key is sent to the int
\* queue first, then to the char queue, both before the next key is read.
UpdatesFollowKeys ==
    NothingDropped =>
        /\ \A k \in 1..Len(shown) :
              k <= Len(keysRead) /\ KeyOf(gotInt[k][1]) = keysRead[k]
        /\ \A k \in 1..Len(started) :
              k <= Len(keysRead) /\ gotChar[k][1][1] = keysRead[k]
        /\ Len(accChar) <= Len(accInt)
        /\ Len(accInt) <= Len(keysRead)
        /\ Len(keysRead) <= Len(accChar) + 1

====
